---- MODULE Spec2Model ----
(***************************************************************************)
(* Model of the run-editing engine of LiveSplit-gtk (TuxSplit):            *)
(*   src/src/ui/editor/context.rs   EditorContext and its four setters     *)
(*   src/src/ui/editor/table.rs     SegmentsEditor: snapshot, cell         *)
(*                                  handlers, cancel_changes               *)
(*   src/src/context.rs             TuxSplitContext::set_run               *)
(* The shared state is one Timer behind an Arc<RwLock<Timer>>.  The UI     *)
(* thread runs the handlers; a background thread (hotkeys, auto splitter)  *)
(* takes the same lock for reading or writing.  A handler is cut into      *)
(* steps only where another thread can observe it: taking the lock, the    *)
(* replacement of the Run inside Timer::set_run, dropping the guard, and   *)
(* the emission of the signal.                                             *)
(***************************************************************************)
EXTENDS Integers, Sequences, FiniteSets, TLC

\* ------------------------------------------------------------- bounds
MaxSegs == 2    \* segments in a Run, and the largest index a caller passes
MaxMs == 1      \* largest millisecond value a caller passes
MaxOps == 3     \* calls made by the UI thread in one behaviour

\* ------------------------------------------------------------ the Run
None == << >>
Some(x) == << x >>

RealTime == "RealTime"
GameTime == "GameTime"
TimingMethods == {RealTime, GameTime}

\* livesplit_core::Time: one optional TimeSpan per timing method.
EmptyTime == [m \in TimingMethods |-> None]

\* livesplit_core::Segment::new(name): a name and no times.
NewSegment(name) == [name |-> name, pb |-> EmptyTime, best |-> EmptyTime]

\* A Run of n fresh segments (Run::new followed by push_segment).
DefaultRun(n) == [i \in 1..n |-> NewSegment("Segment")]

\* Names and millisecond values the callers pass: a negative value, zero
\* and a positive one.
NameInputs == {"Renamed"}
MsInputs == {-1, 0, MaxMs}
IndexInputs == 0..MaxSegs

\* The Runs handed to TuxSplitContext::set_run: the empty Run, which the
\* Timer rejects, and fresh Runs of every length.
RunInputs == {DefaultRun(n) : n \in 0..MaxSegs}

\* The threads.  Handlers run on the UI thread; the background thread only
\* takes and drops the timer lock.
UI == "ui"
BG == "bg"
Editors == {UI}
Threads == {UI, BG}
NoThread == "none"

\* --------------------------------------------------------------- state
VARIABLES
    run,            \* Timer.run, the stored Run: a sequence of segments
    pending,        \* None, or Some(r) while Timer::set_run is storing r
    lock,           \* the RwLock<Timer>: its writer and its readers
    cfg_lock,       \* the RwLock<Config>: the thread holding it for writing
    pc,             \* where each UI-side thread is in its handler
    cur,            \* the call each UI-side thread is in, or made last
    bg,             \* the background thread: idle, reading or writing
    run_snapshot,   \* SegmentsEditor.run_snapshot; None before new()
    timing_method,  \* EditorContext.timing_method, the Cell<i32>
    entry_error,    \* per time column: the entry carries the "error" class
    started,        \* calls made so far
    replaced,       \* successful Timer::set_run replacements so far
    emitted,        \* run-changed emissions so far
    committed,      \* the Run of the last Timer::set_run that returned Ok
    method_signal   \* timing-method-changed emissions of the last set_timing_method

\* SegmentsModel (model.rs) and the Timer and TimingMethod it is called with.
VARIABLES
    model_segments, \* timer.run().segments() of the Timer passed to the model
    model_method,   \* the timing_method passed to the model
    store,          \* SegmentsModel.store: the rows of the ListStore, in order
    last_call       \* the last method of SegmentsModel that ran on the store

\* Construction of the context at program start (context.rs, main.rs).
VARIABLE
    startup         \* the constructor: its inputs, its position, what exists

modelvars == << model_segments, model_method, store, last_call >>

vars == << run, pending, lock, cfg_lock, pc, cur, bg, run_snapshot,
           timing_method, entry_error, started, replaced, emitted,
           committed, method_signal, startup, modelvars >>

EcKinds == {"set_segment_name", "set_split_time_ms", "set_segment_time_ms",
            "set_best_time_ms"}
TimeColumns == {"split_time_column", "segment_time_column", "best_segment_column"}
TableKinds == {"name_column"} \cup TimeColumns

\* The record of a call: its arguments while it runs and how it ended.
Call(kind, index, name, ms, newrun, item, outcome) ==
    [kind |-> kind, index |-> index, name |-> name, ms |-> ms,
     newrun |-> newrun, item |-> item, outcome |-> outcome, changed |-> FALSE]

\* A finished call keeps its kind and how it ended.
Finished(kind, outcome) == Call(kind, 0, "", 0, << >>, TRUE, outcome)

\* A call refused for its millisecond value keeps the value as well.
Refused(kind, ms) == Call(kind, 0, "", ms, << >>, TRUE, "rejected")

\* A call that went through Timer::set_run keeps whether the Timer took the
\* Run and whether the stored Run is another one than before.
Stored(kind, ok, changed) ==
    [Finished(kind, IF ok THEN "committed" ELSE "failed") EXCEPT !.changed = changed]

NoCall == Finished("none", "none")

\* ---------------------------------------------------------- the RwLock
Unlocked == [writer |-> NoThread, readers |-> {}]

\* RwLock::try_write succeeds, and RwLock::write returns, only when no
\* thread holds the lock in either mode.
WriteAvailable == lock.writer = NoThread /\ lock.readers = {}

\* RwLock::read returns when no thread holds the lock for writing.
ReadAvailable == lock.writer = NoThread

WriteLocked(t) == [lock EXCEPT !.writer = t]
WriteUnlocked(t) == [lock EXCEPT !.writer = NoThread]
ReadLocked(t) == [lock EXCEPT !.readers = @ \cup {t}]
ReadUnlocked(t) == [lock EXCEPT !.readers = @ \ {t}]

HeldByOther(t) ==
    \/ lock.writer \notin {NoThread, t}
    \/ lock.readers \ {t} # {}

\* ------------------------------------------------- edits of a Run copy
\* Mutant: the index check off by one.
InRangeInclusive(r, index) == index <= Len(r)

\* Segment indexes are 0-based in the code and 1-based in the sequences.
\* if index >= run.segments().len() { return; }
InRange(r, index) == index < Len(r)

\* run.segments_mut()[index].set_name(name)
SetName(r, index, name) == [r EXCEPT ![index + 1].name = name]

\* Mutant: the edited segment is pushed onto the Run instead of replacing
\* the one at the index.
SetSplitTimePushed(r, index, method, ms) ==
    Append(r, [r[index + 1] EXCEPT !.pb[method] = Some(ms)])

\* personal_best_split_time_mut().with_timing_method(method, Some(ms)), and
\* RunEditor's set_comparison_time("Personal Best", Some(ms)) on the one
\* selected segment under the selected method.
SetSplitTime(r, index, method, ms) ==
    [r EXCEPT ![index + 1].pb[method] = Some(ms)]

\* Mutant: the best segment time is written under both timing methods.
SetBestTimeBothMethods(r, index, method, ms) ==
    [r EXCEPT ![index + 1].best = [m \in TimingMethods |-> Some(ms)]]

\* best_segment_time_mut().with_timing_method(method, Some(ms))
SetBestTime(r, index, method, ms) ==
    [r EXCEPT ![index + 1].best[method] = Some(ms)]

\* The split time RunEditor measures segment k+1 (1-based) against: the
\* nearest earlier present split, zero when there is none.
RECURSIVE PreviousSplit(_, _, _)
PreviousSplit(r, method, k) ==
    IF k = 0 THEN 0
    ELSE IF r[k].pb[method] # None THEN r[k].pb[method][1]
    ELSE PreviousSplit(r, method, k - 1)

\* RunEditor's segment times: each present split less the split before it.
SegmentTimes(r, method) ==
    [k \in 1..Len(r) |->
        IF r[k].pb[method] = None THEN None
        ELSE Some(r[k].pb[method][1] - PreviousSplit(r, method, k - 1))]

\* RunEditor rebuilds the splits from the segment times: a running sum over
\* the segments that have one.
RECURSIVE SplitFromSegments(_, _)
SplitFromSegments(times, k) ==
    IF k = 0 THEN 0
    ELSE IF times[k] # None THEN SplitFromSegments(times, k - 1) + times[k][1]
    ELSE SplitFromSegments(times, k - 1)

\* RunEditor: select_additionally(index), select_timing_method(method),
\* active_segment().set_segment_time(Some(ms)), unselect(index), close().
SetSegmentTime(r, index, method, ms) ==
    LET times == [SegmentTimes(r, method) EXCEPT ![index + 1] = Some(ms)]
    IN  [k \in 1..Len(r) |->
            IF times[k] = None THEN r[k]
            ELSE [r[k] EXCEPT !.pb[method] = Some(SplitFromSegments(times, k))]]

\* Mutant: the match arms of method() exchanged.
method_exchanged(code) == IF code = 1 THEN RealTime ELSE GameTime

\* imp::EditorContext::method: the Cell's code as a TimingMethod.
method(code) == IF code = 1 THEN GameTime ELSE RealTime

\* Mutant: the codes stored are one too high.
set_method_shifted(m) == IF m = RealTime THEN 1 ELSE 2

\* imp::EditorContext::set_method: the TimingMethod as the Cell's code.
set_method(m) == IF m = RealTime THEN 0 ELSE 1

\* `old as i32`: the discriminant of the TimingMethod.
as_i32(m) == IF m = RealTime THEN 0 ELSE 1

\* SegmentsEditor.timing_method: set to RealTime in new() and never written.
TableMethod == RealTime

\* Mutant: a Timer that takes any Run, the empty one included.
TimerAcceptsAny(r) == TRUE

\* Timer::new and Timer::set_run refuse a Run without segments and hand it
\* back as Err.
TimerAccepts(r) == Len(r) > 0

\* RunEditor::new(run).ok(): None for a Run without segments, so that the
\* unwrap() that follows panics.
RunEditorNew(r) == IF Len(r) > 0 THEN Some(r) ELSE None

\* The calls that edit through a RunEditor.
RunEditorKinds == {"set_split_time_ms", "set_segment_time_ms",
                   "segment_time_column"}

\* The constructor's record: which constructor runs, the Run that
\* parse_run_or_default gave, whether create_hotkey_system gives Some,
\* whether the config names an auto splitter; where it is; whether the Timer
\* exists, how many handles to it (Arc or Rc clones) exist, whether the
\* context object has been returned and whether the UI is built.
Startup(entry, r, hotkeys, splitter, at, timer, handles, context, ui) ==
    [entry |-> entry, run |-> r, hotkeys |-> hotkeys, auto_splitter |-> splitter,
     pc |-> at, timer |-> timer, handles |-> handles, context |-> context,
     ui |-> ui]

\* TuxSplitContext::new_initialized has returned the context around a Timer
\* of Run r.
Constructed(r) ==
    Startup("new_initialized", r, TRUE, FALSE, "done", TRUE, 3, TRUE, FALSE)

\* What parse_hms gives for the text of an entry: an error, or a duration
\* in whole milliseconds, which may be negative.
ParseError == [ok |-> FALSE, ms |-> 0]
Parsed(ms) == [ok |-> TRUE, ms |-> ms]
ParseResults == {ParseError} \cup {Parsed(ms) : ms \in MsInputs}

\* Mutant: the validation without the check for a negative duration.
InvalidParseOnly(dur) == ~dur.ok

\* The validation of the time columns: dur.is_err() || dur.is_negative().
Invalid(dur) == ~dur.ok \/ dur.ms < 0

\* Mutant: cancel_changes hands the timer its own current Run.
SnapshotRetaken == run

\* cancel_changes: self.run_snapshot.clone()
SnapshotToRestore == run_snapshot[1]

\* The Run a call stores, from the Run it cloned under the write lock.
EditedRun(c, r) ==
    CASE c.kind \in {"set_segment_name", "name_column"} ->
            SetName(r, c.index, c.name)
      [] c.kind = "set_split_time_ms" ->
            SetSplitTime(r, c.index, method(timing_method), c.ms)
      [] c.kind = "split_time_column" ->
            SetSplitTime(r, c.index, TableMethod, c.ms)
      [] c.kind = "set_segment_time_ms" ->
            SetSegmentTime(r, c.index, method(timing_method), c.ms)
      [] c.kind = "segment_time_column" ->
            SetSegmentTime(r, c.index, TableMethod, c.ms)
      [] c.kind = "set_best_time_ms" ->
            SetBestTime(r, c.index, method(timing_method), c.ms)
      [] c.kind = "best_segment_column" ->
            SetBestTime(r, c.index, TableMethod, c.ms)
      [] c.kind = "cancel_changes" -> SnapshotToRestore
      [] c.kind = "set_run" -> c.newrun

\* Whether the call reaches Timer::set_run once it holds the lock: the index
\* check of the setters and cell handlers (and the cell's bound item).
ReachesSetRun(c, r) ==
    IF c.kind \in {"cancel_changes", "set_run"} THEN TRUE
    ELSE c.item /\ InRange(r, c.index)

\* ---------------------------------------------------------------- Init
\* The state after TuxSplitContext::new_initialized: a Timer built from a
\* Run that has at least one segment, no editor open, RealTime selected.
Init ==
    /\ run \in {DefaultRun(n) : n \in 1..MaxSegs}
    /\ pending = None
    /\ lock = Unlocked
    /\ cfg_lock = NoThread
    /\ pc = [t \in Editors |-> "idle"]
    /\ cur = [t \in Editors |-> NoCall]
    /\ bg = "idle"
    /\ run_snapshot = None
    /\ timing_method = 0
    /\ entry_error = [c \in TimeColumns |-> FALSE]
    /\ started = 0
    /\ replaced = 0
    /\ emitted = 0
    /\ committed = run
    /\ method_signal = 0
    /\ startup = Constructed(run)
    /\ model_segments = << >>
    /\ model_method = RealTime
    /\ store = << >>
    /\ last_call = "none"

\* A thread makes its next call when it is in none, within the budget.
CanCall(t) == pc[t] = "idle" /\ started < MaxOps

\* The call returns to the caller with the given outcome.
Returns(t, kind, outcome) ==
    /\ pc' = [pc EXCEPT ![t] = "idle"]
    /\ cur' = [cur EXCEPT ![t] = Finished(kind, outcome)]

\* Mutant: a try_write that never fails, whoever holds the lock.
TryWriteAlways == TRUE

\* Mutant: a try_write that looks at the writer only and takes the lock
\* over a reader.
TryWriteIgnoresReaders == lock.writer = NoThread

\* let Ok(mut timer) = maybe_timer.try_write() else { return; }
TryWriteSucceeds == WriteAvailable

\* timer.write().unwrap() returns
WriteReturns == WriteAvailable

\* Mutant: a lock that admits one holder at a time, reader or writer.
ReadReturnsAlone == WriteAvailable

\* timer.read().unwrap() returns
ReadReturns == ReadAvailable

\* Mutant: the Run is taken from the editor's snapshot once there is one,
\* as create_data_model does for its rows, instead of from the timer.
ReadRunFromSnapshot == IF run_snapshot # None THEN run_snapshot[1] ELSE run

\* timer.run(), as a thread holding the lock sees it
ReadRun == run

\* A call that takes the write lock with write(): it waits in write_lock.
BlockingCall(t, c) ==
    /\ pc' = [pc EXCEPT ![t] = "write_wait"]
    /\ cur' = [cur EXCEPT ![t] = c]

\* ---------------------------------------- EditorContext: the four setters
\* Mutant: the setters take the lock with write(), as the cell handlers do,
\* and wait for it.
SetterCallBlocking(t, kind, index, name, ms) ==
    /\ CanCall(t)
    /\ started' = started + 1
    /\ IF kind # "set_segment_name" /\ ms < 0
       THEN /\ pc' = [pc EXCEPT ![t] = "idle"]
            /\ cur' = [cur EXCEPT ![t] = Refused(kind, ms)]
       ELSE BlockingCall(t, Call(kind, index, name, ms, << >>, TRUE, "pending"))
    /\ UNCHANGED << run, pending, lock, cfg_lock, bg, run_snapshot,
                    timing_method, entry_error, replaced, emitted, committed,
                    method_signal, startup, modelvars >>

\* The part the setters share: the ms < 0 check (the three time setters
\* only), then try_write.  A setter that gets the lock goes on in release_unedited
\* or timer_set_run.
SetterCall(t, kind, index, name, ms) ==
    /\ CanCall(t)
    /\ started' = started + 1
    /\ IF kind # "set_segment_name" /\ ms < 0
       THEN /\ pc' = [pc EXCEPT ![t] = "idle"]
            /\ cur' = [cur EXCEPT ![t] = Refused(kind, ms)]
            /\ lock' = lock
       ELSE IF ~TryWriteSucceeds
       THEN /\ Returns(t, kind, "contended")
            /\ lock' = lock
       ELSE /\ lock' = WriteLocked(t)
            /\ pc' = [pc EXCEPT ![t] = "locked"]
            /\ cur' = [cur EXCEPT ![t] =
                          Call(kind, index, name, ms, << >>, TRUE, "pending")]
    /\ UNCHANGED << run, pending, cfg_lock, bg, run_snapshot, timing_method,
                    entry_error, replaced, emitted, committed,
                    method_signal, startup, modelvars >>

set_segment_name(t, index, name) ==
    SetterCall(t, "set_segment_name", index, name, 0)

set_split_time_ms(t, index, ms) ==
    SetterCall(t, "set_split_time_ms", index, "", ms)

set_segment_time_ms(t, index, ms) ==
    SetterCall(t, "set_segment_time_ms", index, "", ms)

set_best_time_ms(t, index, ms) ==
    SetterCall(t, "set_best_time_ms", index, "", ms)

\* EditorContext::set_timing_method: store the method, emit
\* timing-method-changed when the stored code changed.
set_timing_method(t, m) ==
    /\ CanCall(t)
    /\ started' = started + 1
    /\ timing_method' = set_method(m)
    /\ method_signal' = IF as_i32(method(timing_method)) # timing_method'
                        THEN 1 ELSE 0
    /\ pc' = [pc EXCEPT ![t] = "idle"]
    /\ cur' = [cur EXCEPT ![t] =
                  [Finished("set_timing_method", "done") EXCEPT !.name = m]]
    /\ UNCHANGED << run, pending, lock, cfg_lock, bg, run_snapshot,
                    entry_error, replaced, emitted, committed, startup, modelvars >>

\* ------------------------------------------- SegmentsEditor: the table
EditorOpen == run_snapshot # None

\* The rows of the table: one per segment of the snapshot, made by
\* create_data_model with index 0, 1, ...
RowIndexes == IF EditorOpen THEN 0..(Len(run_snapshot[1]) - 1) ELSE {}

\* SegmentsEditor::new: the snapshot is read in snapshot_read.
new(t) ==
    /\ CanCall(t)
    /\ started' = started + 1
    /\ pc' = [pc EXCEPT ![t] = "read_wait"]
    /\ cur' = [cur EXCEPT ![t] = Finished("new", "pending")]
    /\ UNCHANGED << run, pending, lock, cfg_lock, bg, run_snapshot,
                    timing_method, entry_error, replaced, emitted, committed,
                    method_signal, startup, modelvars >>

\* The changed handler of a name entry: no validation, then write().
make_name_column(t, item, index, name) ==
    /\ CanCall(t)
    /\ EditorOpen
    /\ index \in RowIndexes
    /\ started' = started + 1
    /\ BlockingCall(t, Call("name_column", index, name, 0, << >>, item, "pending"))
    /\ UNCHANGED << run, pending, lock, cfg_lock, bg, run_snapshot,
                    timing_method, entry_error, replaced, emitted, committed,
                    method_signal, startup, modelvars >>

\* Mutant: the handlers without e.remove_css_class("error"): a flag stays
\* until the entry is flagged again.
TimeColumnChangedSticky(t, column, item, index, dur) ==
    /\ CanCall(t)
    /\ EditorOpen
    /\ index \in RowIndexes
    /\ started' = started + 1
    /\ IF Invalid(dur)
       THEN /\ entry_error' = [entry_error EXCEPT ![column] = TRUE]
            /\ pc' = [pc EXCEPT ![t] = "idle"]
            /\ cur' = [cur EXCEPT ![t] =
                          IF dur.ok THEN Refused(column, dur.ms)
                          ELSE Finished(column, "malformed")]
       ELSE /\ entry_error' = entry_error
            /\ BlockingCall(t, Call(column, index, "", dur.ms, << >>, item, "pending"))
    /\ UNCHANGED << run, pending, lock, cfg_lock, bg, run_snapshot,
                    timing_method, replaced, emitted, committed,
                    method_signal, startup, modelvars >>

\* The part the changed handlers of the three time columns share: clear the
\* error class, parse, flag and return when the text is invalid, else write().
TimeColumnChanged(t, column, item, index, dur) ==
    /\ CanCall(t)
    /\ EditorOpen
    /\ index \in RowIndexes
    /\ started' = started + 1
    /\ IF Invalid(dur)
       THEN /\ entry_error' = [entry_error EXCEPT ![column] = TRUE]
            /\ pc' = [pc EXCEPT ![t] = "idle"]
            /\ cur' = [cur EXCEPT ![t] =
                          IF dur.ok THEN Refused(column, dur.ms)
                          ELSE Finished(column, "malformed")]
       ELSE /\ entry_error' = [entry_error EXCEPT ![column] = FALSE]
            /\ BlockingCall(t, Call(column, index, "", dur.ms, << >>, item, "pending"))
    /\ UNCHANGED << run, pending, lock, cfg_lock, bg, run_snapshot,
                    timing_method, replaced, emitted, committed,
                    method_signal, startup, modelvars >>

make_split_time_column(t, item, index, dur) ==
    TimeColumnChanged(t, "split_time_column", item, index, dur)

make_segment_time_column(t, item, index, dur) ==
    TimeColumnChanged(t, "segment_time_column", item, index, dur)

make_best_segment_column(t, item, index, dur) ==
    TimeColumnChanged(t, "best_segment_column", item, index, dur)

\* SegmentsEditor::cancel_changes: write(), then set_run(snapshot.clone()).
cancel_changes(t) ==
    /\ CanCall(t)
    /\ EditorOpen
    /\ started' = started + 1
    /\ BlockingCall(t, Call("cancel_changes", 0, "", 0, << >>, TRUE, "pending"))
    /\ UNCHANGED << run, pending, lock, cfg_lock, bg, run_snapshot,
                    timing_method, entry_error, replaced, emitted, committed,
                    method_signal, startup, modelvars >>

\* TuxSplitContext::set_run(new_run): write(), then timer.set_run(new_run).
set_run(t, new_run) ==
    /\ CanCall(t)
    /\ started' = started + 1
    /\ BlockingCall(t, Call("set_run", 0, "", 0, new_run, TRUE, "pending"))
    /\ UNCHANGED << run, pending, lock, cfg_lock, bg, run_snapshot,
                    timing_method, entry_error, replaced, emitted, committed,
                    method_signal, startup, modelvars >>

\* ------------------------------------------ the steps under the lock
\* timer.write().unwrap() of a cell handler, cancel_changes or set_run
\* returns: the thread holds the write lock.
write_lock(t) ==
    /\ pc[t] = "write_wait"
    /\ WriteReturns
    /\ lock' = WriteLocked(t)
    /\ pc' = [pc EXCEPT ![t] = "locked"]
    /\ UNCHANGED << run, pending, cfg_lock, cur, bg, run_snapshot,
                    timing_method, entry_error, started, replaced, emitted, committed,
                    method_signal, startup, modelvars >>

\* The index is not below the segment count (or the cell has no item): the
\* setter returns, the handler's closure ends; the guard is dropped.
release_unedited(t) ==
    /\ pc[t] = "locked"
    /\ ~ReachesSetRun(cur[t], ReadRun)
    /\ lock' = WriteUnlocked(t)
    /\ Returns(t, cur[t].kind, IF cur[t].item THEN "out_of_range" ELSE "no_item")
    /\ UNCHANGED << run, pending, cfg_lock, bg, run_snapshot, timing_method,
                    entry_error, started, replaced, emitted, committed,
                    method_signal, startup, modelvars >>

\* The copy of the Run is edited and handed to Timer::set_run, which starts
\* to replace the stored Run.
timer_set_run(t) ==
    /\ pc[t] = "locked"
    /\ ReachesSetRun(cur[t], ReadRun)
    /\ pending' = Some(EditedRun(cur[t], ReadRun))
    /\ pc' = [pc EXCEPT ![t] = "replacing"]
    /\ UNCHANGED << run, lock, cfg_lock, cur, bg, run_snapshot,
                    timing_method, entry_error, started, replaced, emitted, committed,
                    method_signal, startup, modelvars >>

\* Mutant: the setters leave the write guard alive when they return.
AfterSetRunKeepsLock(t, kind, ok) ==
    IF kind \in EcKinds
    THEN /\ lock' = lock
         /\ pc' = [pc EXCEPT ![t] = IF ok THEN "emit" ELSE "panicked"]
    ELSE IF kind = "set_run"
    THEN /\ lock' = lock
         /\ pc' = [pc EXCEPT ![t] = "configure"]
    ELSE /\ lock' = WriteUnlocked(t)
         /\ pc' = [pc EXCEPT ![t] =
                      IF ok \/ kind = "cancel_changes" THEN "idle" ELSE "panicked"]

\* What follows Timer::set_run in each caller.  The setters assert the
\* result, drop the guard and go on to emit; the cell handlers assert it and
\* end, cancel_changes returns it, and both drop the guard without emitting;
\* TuxSplitContext::set_run discards the result and keeps the guard.
AfterSetRun(t, kind, ok) ==
    IF kind \in EcKinds
    THEN /\ lock' = WriteUnlocked(t)
         /\ pc' = [pc EXCEPT ![t] = IF ok THEN "emit" ELSE "panicked"]
    ELSE IF kind = "set_run"
    THEN /\ lock' = lock
         /\ pc' = [pc EXCEPT ![t] = "configure"]
    ELSE /\ lock' = WriteUnlocked(t)
         /\ pc' = [pc EXCEPT ![t] =
                      IF ok \/ kind = "cancel_changes" THEN "idle" ELSE "panicked"]

\* Timer::set_run returns: the Run is replaced when the Timer accepts it.
timer_set_run_returns(t) ==
    /\ pc[t] = "replacing"
    /\ LET ok == TimerAccepts(pending[1]) IN
        /\ run' = IF ok THEN pending[1] ELSE run
        /\ committed' = IF ok THEN pending[1] ELSE committed
        /\ replaced' = IF ok THEN replaced + 1 ELSE replaced
        /\ cur' = [cur EXCEPT ![t] = Stored(cur[t].kind, ok, ok /\ pending[1] # run)]
        /\ AfterSetRun(t, cur[t].kind, ok)
    /\ pending' = None
    /\ UNCHANGED << cfg_lock, bg, run_snapshot, timing_method, entry_error,
                    started, emitted, method_signal, startup, modelvars >>

\* TuxSplitContext::set_run: cfg_arc.write().unwrap() returns and
\* configure_timer runs, under both locks.
configure_timer(t) ==
    /\ pc[t] = "configure"
    /\ cfg_lock = NoThread
    /\ cfg_lock' = t
    /\ pc' = [pc EXCEPT ![t] = "configured"]
    /\ UNCHANGED << run, pending, lock, cur, bg, run_snapshot, timing_method,
                    entry_error, started, replaced, emitted, committed,
                    method_signal, startup, modelvars >>

\* TuxSplitContext::set_run: the two blocks end, both guards are dropped.
set_run_unlock(t) ==
    /\ pc[t] = "configured"
    /\ cfg_lock' = NoThread
    /\ lock' = WriteUnlocked(t)
    /\ pc' = [pc EXCEPT ![t] = "emit"]
    /\ UNCHANGED << run, pending, cur, bg, run_snapshot, timing_method,
                    entry_error, started, replaced, emitted, committed,
                    method_signal, startup, modelvars >>

\* emit_run_changed: the handlers of run-changed run on this thread, and
\* the call returns.
emit_run_changed(t) ==
    /\ pc[t] = "emit"
    /\ emitted' = emitted + 1
    /\ pc' = [pc EXCEPT ![t] = "idle"]
    /\ UNCHANGED << run, pending, lock, cfg_lock, cur, bg, run_snapshot,
                    timing_method, entry_error, started, replaced, committed,
                    method_signal, startup, modelvars >>

\* ------------------------------------------- SegmentsEditor::new, on
\* timer.read().unwrap() returns.
read_lock(t) ==
    /\ pc[t] \in {"read_wait", "model_wait"}
    /\ ReadReturns
    /\ lock' = ReadLocked(t)
    /\ pc' = [pc EXCEPT ![t] = IF pc[t] = "read_wait" THEN "reading" ELSE "model"]
    /\ UNCHANGED << run, pending, cfg_lock, cur, bg, run_snapshot,
                    timing_method, entry_error, started, replaced, emitted, committed,
                    method_signal, startup, modelvars >>

\* let run_snapshot = timer.read().unwrap().run().clone(); the guard is a
\* temporary and is dropped with the statement.
snapshot_read(t) ==
    /\ pc[t] = "reading"
    /\ run_snapshot' = Some(ReadRun)
    /\ lock' = ReadUnlocked(t)
    /\ pc' = [pc EXCEPT ![t] = "model_wait"]
    /\ UNCHANGED << run, pending, cfg_lock, cur, bg, timing_method,
                    entry_error, started, replaced, emitted, committed,
                    method_signal, startup, modelvars >>

\* create_data_model: the rows are built from the snapshot under a read
\* lock, which is dropped when it returns; new() returns the editor.
create_data_model(t) ==
    /\ pc[t] = "model"
    /\ lock' = ReadUnlocked(t)
    /\ Returns(t, "new", "done")
    /\ UNCHANGED << run, pending, cfg_lock, bg, run_snapshot, timing_method,
                    entry_error, started, replaced, emitted, committed,
                    method_signal, startup, modelvars >>

\* ------------------------------------------------ the background thread
\* The hotkey system and the auto splitter take the shared timer's lock for
\* reading or for writing, blocking, and drop it.
bg_read ==
    /\ bg = "idle"
    /\ ReadReturns
    /\ lock' = ReadLocked(BG)
    /\ bg' = "reading"
    /\ UNCHANGED << run, pending, cfg_lock, pc, cur, run_snapshot,
                    timing_method, entry_error, started, replaced, emitted, committed,
                    method_signal, startup, modelvars >>

bg_write ==
    /\ bg = "idle"
    /\ WriteReturns
    /\ lock' = WriteLocked(BG)
    /\ bg' = "writing"
    /\ UNCHANGED << run, pending, cfg_lock, pc, cur, run_snapshot,
                    timing_method, entry_error, started, replaced, emitted, committed,
                    method_signal, startup, modelvars >>

bg_unlock ==
    /\ bg # "idle"
    /\ lock' = IF bg = "reading" THEN ReadUnlocked(BG) ELSE WriteUnlocked(BG)
    /\ bg' = "idle"
    /\ UNCHANGED << run, pending, cfg_lock, pc, cur, run_snapshot,
                    timing_method, entry_error, started, replaced, emitted, committed,
                    method_signal, startup, modelvars >>

\* ---------------------------------------------------------------- Next
Next ==
    \/ \E t \in Editors, i \in IndexInputs, n \in NameInputs :
            set_segment_name(t, i, n)
    \/ \E t \in Editors, i \in IndexInputs, ms \in MsInputs :
            set_split_time_ms(t, i, ms)
    \/ \E t \in Editors, i \in IndexInputs, ms \in MsInputs :
            set_segment_time_ms(t, i, ms)
    \/ \E t \in Editors, i \in IndexInputs, ms \in MsInputs :
            set_best_time_ms(t, i, ms)
    \/ \E t \in Editors, m \in TimingMethods : set_timing_method(t, m)
    \/ \E t \in Editors : new(t)
    \/ \E t \in Editors, item \in BOOLEAN, i \in IndexInputs, n \in NameInputs :
            make_name_column(t, item, i, n)
    \/ \E t \in Editors, item \in BOOLEAN, i \in IndexInputs, d \in ParseResults :
            make_split_time_column(t, item, i, d)
    \/ \E t \in Editors, item \in BOOLEAN, i \in IndexInputs, d \in ParseResults :
            make_segment_time_column(t, item, i, d)
    \/ \E t \in Editors, item \in BOOLEAN, i \in IndexInputs, d \in ParseResults :
            make_best_segment_column(t, item, i, d)
    \/ \E t \in Editors : cancel_changes(t)
    \/ \E t \in Editors, r \in RunInputs : set_run(t, r)
    \/ \E t \in Editors : write_lock(t)
    \/ \E t \in Editors : release_unedited(t)
    \/ \E t \in Editors : timer_set_run(t)
    \/ \E t \in Editors : timer_set_run_returns(t)
    \/ \E t \in Editors : configure_timer(t)
    \/ \E t \in Editors : set_run_unlock(t)
    \/ \E t \in Editors : emit_run_changed(t)
    \/ \E t \in Editors : read_lock(t)
    \/ \E t \in Editors : snapshot_read(t)
    \/ \E t \in Editors : create_data_model(t)
    \/ bg_read
    \/ bg_write
    \/ bg_unlock

Spec == Init /\ [][Next]_vars

\* A thread that is inside a call and not waiting for a lock goes on: the
\* code between a successful try_write and the return has no blocking call.
Progress(t) ==
    /\ WF_vars(release_unedited(t))
    /\ WF_vars(timer_set_run(t))
    /\ WF_vars(timer_set_run_returns(t))
    /\ WF_vars(emit_run_changed(t))

FairSpec == Spec /\ \A t \in Editors : Progress(t)

\* ======================================= SegmentsModel (model.rs)
\* SegmentsModel keeps a ListStore of SegmentRow and fills it from a Timer
\* and a TimingMethod.  compute_row_values is a function of the segment
\* slice it is given; it is applied here to every slice of the input sets.
MaxRows == 3    \* segments of the Timer handed to the model

progvars == << run, pending, lock, cfg_lock, pc, cur, bg, run_snapshot,
               timing_method, entry_error, started, replaced, emitted,
               committed, method_signal, startup >>

\* A Segment with the "Best Segments" entry of its comparisons, which the
\* library keeps beside the personal best split time ("Personal Best") and
\* the best_segment_time field.
Segment(name, pb, best, gold) ==
    [name |-> name, pb |-> pb, best |-> best, best_segments |-> gold]

\* The times of the input segments: under RealTime absent, zero or positive;
\* under GameTime present exactly when the real time is absent, so that the
\* two methods never agree.
OptionalMs == {None} \cup {Some(ms) : ms \in 0..MaxMs}
TimeInputs ==
    {[m \in TimingMethods |->
        IF m = RealTime THEN a ELSE IF a = None THEN Some(MaxMs) ELSE None] :
     a \in OptionalMs}

\* The "Best Segments" times of the input segments: absent, zero or MaxMs
\* under RealTime.
GoldInputs ==
    {t \in TimeInputs : t[RealTime] \in {None, Some(0), Some(MaxMs)}}

\* The input segments: every personal best split of TimeInputs and every
\* "Best Segments" time of GoldInputs, with a best_segment_time of MaxMs
\* under both methods.
SegmentInputs ==
    {Segment(n, pb, [m \in TimingMethods |-> Some(MaxMs)], gold) :
        n \in NameInputs, pb \in TimeInputs, gold \in GoldInputs}

\* The segment slices of a Timer: at least one segment.
SegmentsInputs == UNION {[1..n -> SegmentInputs] : n \in 1..MaxRows}

\* The comparisons a segment of the input sets holds times for; any of them
\* can be the Timer's current comparison.
ComparisonNames == {"Personal Best", "Best Segments"}

\* segment.comparison_timing_method(comparison, timing_method)
comparison_timing_method(segment, comparison, m) ==
    IF comparison = "Personal Best" THEN segment.pb[m]
    ELSE segment.best_segments[m]

\* .unwrap_or_default().to_duration(): an absent time counts as zero.
unwrap_or_default(t) == IF t = None THEN 0 ELSE t[1]

\* Mutant: the scan stops at the nearest earlier segment whose time is
\* present, a recorded zero included.
RECURSIVE LastPresent(_, _, _, _)
LastPresent(segments, comparison, m, k) ==
    IF k = 0 THEN None
    ELSE IF comparison_timing_method(segments[k], comparison, m) # None
    THEN Some(k - 1)
    ELSE LastPresent(segments, comparison, m, k - 1)

\* for k in (0..index).rev() { if segments[k]...to_duration() != ZERO
\* { last = Some(k); break; } }: k counts the segments still to look at,
\* the result is a 0-based index.
RECURSIVE LastNonZero(_, _, _, _)
LastNonZero(segments, comparison, m, k) ==
    IF k = 0 THEN None
    ELSE IF unwrap_or_default(comparison_timing_method(segments[k], comparison, m)) # 0
    THEN Some(k - 1)
    ELSE LastNonZero(segments, comparison, m, k - 1)

last_non_skipped(segments, index, m) ==
    LastNonZero(segments, "Personal Best", m, index)

\* Mutant: the scan for the last gold looks at the personal best splits.
last_gold_by_split(segments, index, m) ==
    LastNonZero(segments, "Personal Best", m, index)

last_gold(segments, index, m) ==
    LastNonZero(segments, "Best Segments", m, index)

\* last.map_or(ZERO, |k| segments[k].comparison_timing_method(..)
\* .unwrap_or_default().to_duration())
DurationAt(segments, last, comparison, m) ==
    IF last = None THEN 0
    ELSE unwrap_or_default(comparison_timing_method(segments[last[1] + 1], comparison, m))

previous_comparison_duration(segments, index, m) ==
    DurationAt(segments, last_non_skipped(segments, index, m), "Personal Best", m)

\* time::Duration::saturating_sub: Duration is signed, and the difference
\* saturates at the ends of its range only, which no value here comes near.
saturating_sub(a, b) == a - b

\* String::new()
EmptyString == << >>

Abs(d) == IF d < 0 THEN 0 - d ELSE d

\* TimeFormat::format_duration and format_time_span: the sign, the whole
\* seconds and three digits of milliseconds.
format_duration(d) ==
    << IF d < 0 THEN "-" ELSE "", Abs(d) \div 1000, Abs(d) % 1000 >>

format_time_span(t) == format_duration(t)

\* Mutant: the split time is read under RealTime whatever the method.
split_time_real(segment, m) ==
    LET t == comparison_timing_method(segment, "Personal Best", RealTime)
    IN  IF t = None THEN EmptyString ELSE format_time_span(t[1])

\* segment.comparison_timing_method("Personal Best", timing_method)
\*     .map_or(String::new(), |t| time_parser.format_time_span(&t))
split_time(segment, m) ==
    LET t == comparison_timing_method(segment, "Personal Best", m)
    IN  IF t = None THEN EmptyString ELSE format_time_span(t[1])

\* .map_or(String::new(), |t| format_duration(
\*     t.to_duration().saturating_sub(previous_comparison_duration)))
segment_time(segments, index, m) ==
    LET t == comparison_timing_method(segments[index + 1], "Personal Best", m)
    IN  IF t = None THEN EmptyString
        ELSE format_duration(
                saturating_sub(t[1], previous_comparison_duration(segments, index, m)))

\* The "Best Segments" time of the segment, absent as zero, less that of
\* last_gold.
best_delta(segments, index, m) ==
    saturating_sub(
        unwrap_or_default(
            comparison_timing_method(segments[index + 1], "Best Segments", m)),
        DurationAt(segments, last_gold(segments, index, m), "Best Segments", m))

\* compute_row_values(timing_method, time_parser, segments, index, segment),
\* with segment = segments[index]; the formatter keeps no state.
compute_row_values(m, segments, index) ==
    [name |-> segments[index + 1].name,
     split_time |-> split_time(segments[index + 1], m),
     segment_time |-> segment_time(segments, index, m),
     best |-> format_duration(best_delta(segments, index, m))]

\* SegmentRow::new(index, name, split_time, segment_time, best): a new
\* object, told apart from every other row by obj.
SegmentRow(obj, index, values) ==
    [obj |-> obj, index |-> index, name |-> values.name,
     split_time |-> values.split_time, segment_time |-> values.segment_time,
     best |-> values.best]

\* Mutant: a refresh that leaves the best column of the row as it was.
SetRowValuesButBest(row, values) ==
    [row EXCEPT !.name = values.name, !.split_time = values.split_time,
                !.segment_time = values.segment_time]

\* row.set_name(name); row.set_split_time(split_time);
\* row.set_segment_time(segment_time); row.set_best(best);
SetRowValues(row, values) ==
    [row EXCEPT !.name = values.name, !.split_time = values.split_time,
                !.segment_time = values.segment_time, !.best = values.best]

\* The objects in the store.
Objects(rows) == {rows[i].obj : i \in 1..Len(rows)}

\* The objects of n rows made while the rows of old still exist: any n that
\* are none of them; here the first n free ones.
NewObjects(old, n) ==
    LET free == (1..(2 * MaxRows)) \ Objects(old)
    IN  [i \in 1..n |-> CHOOSE x \in free : Cardinality({y \in free : y < x}) = i - 1]

\* Mutant: the rows are numbered from one.
BuiltRowsFromOne(segments, m, objs) ==
    [i \in 1..Len(segments) |->
        SegmentRow(objs[i], i, compute_row_values(m, segments, i - 1))]

\* The loop of build_from_timer: one new row per segment, appended in order.
BuiltRows(segments, m, objs) ==
    [i \in 1..Len(segments) |->
        SegmentRow(objs[i], i - 1, compute_row_values(m, segments, i - 1))]

\* SegmentsModel::build_from_timer: remove_all, then the loop.
build_from_timer ==
    /\ store' = BuiltRows(model_segments, model_method,
                          NewObjects(store, Len(model_segments)))
    /\ last_call' = "build_from_timer"
    /\ UNCHANGED << model_segments, model_method, progvars >>

\* SegmentsModel::refresh_from_timer: a rebuild when the row count is not
\* the segment count, else every row set in place.
refresh_from_timer ==
    /\ IF Len(store) # Len(model_segments)
       THEN store' = BuiltRows(model_segments, model_method,
                               NewObjects(store, Len(model_segments)))
       ELSE store' = [i \in 1..Len(store) |->
                        SetRowValues(store[i],
                            compute_row_values(model_method, model_segments, i - 1))]
    /\ last_call' = "refresh_from_timer"
    /\ UNCHANGED << model_segments, model_method, progvars >>

\* The store of a model used before: empty (SegmentsModel::new), or the
\* rows built from an earlier Run of n fresh segments under RealTime.
EarlierStore(n) ==
    BuiltRows([i \in 1..n |-> Segment("Segment", EmptyTime, EmptyTime, EmptyTime)],
              RealTime, [i \in 1..n |-> i])

\* The model is handed a Timer and a method; the rest of the program is at
\* rest.
ModelInit ==
    /\ run = DefaultRun(1)
    /\ pending = None
    /\ lock = Unlocked
    /\ cfg_lock = NoThread
    /\ pc = [t \in Editors |-> "idle"]
    /\ cur = [t \in Editors |-> NoCall]
    /\ bg = "idle"
    /\ run_snapshot = None
    /\ timing_method = 0
    /\ entry_error = [c \in TimeColumns |-> FALSE]
    /\ started = 0
    /\ replaced = 0
    /\ emitted = 0
    /\ committed = run
    /\ method_signal = 0
    /\ startup = Constructed(run)
    /\ model_segments \in SegmentsInputs
    /\ model_method \in TimingMethods
    /\ store \in {EarlierStore(n) : n \in 0..MaxRows}
    /\ last_call = "none"

ModelNext ==
    \/ build_from_timer
    \/ refresh_from_timer

ModelSpec == ModelInit /\ [][ModelNext]_vars

\* ============================ construction (context.rs, main.rs)
\* The two constructors: TuxSplitContext::new_initialized and, in main.rs,
\* LiveSplitGTK::new followed by build_ui on activation.
Entries == {"new_initialized", "LiveSplitGTK::new"}

\* The Runs parse_run_or_default can give: any segment names, no segment at
\* all included.
StartupRuns ==
    UNION {[1..n -> {NewSegment("Segment"), NewSegment("Renamed")}] : n \in 0..MaxSegs}

othervars == << run, pending, lock, cfg_lock, pc, cur, bg, run_snapshot,
                timing_method, entry_error, started, replaced, emitted,
                committed, method_signal, modelvars >>

\* The constructor moves on to the next statement.
Proceeds(at, to) ==
    /\ startup.pc = at
    /\ startup' = [startup EXCEPT !.pc = to]
    /\ UNCHANGED othervars

\* The panic unwinds: the locals are dropped, nothing is returned.
Panics ==
    /\ startup' = [startup EXCEPT !.pc = "panicked", !.timer = FALSE,
                                  !.handles = 0]
    /\ UNCHANGED othervars

\* load_config / Config::parse, then config.parse_run_or_default()
parse_run_or_default == Proceeds("begin", "timer_new")

\* Timer::new(run).expect("Failed to create timer")
timer_new ==
    /\ startup.pc = "timer_new"
    /\ IF TimerAccepts(startup.run)
       THEN /\ startup' = [startup EXCEPT !.timer = TRUE,
                              !.pc = IF startup.entry = "new_initialized"
                                     THEN "into_shared" ELSE "configure"]
            /\ UNCHANGED othervars
       ELSE Panics

\* timer.into_shared(), Runtime::new(shared_timer.clone())
into_shared ==
    /\ startup.pc = "into_shared"
    /\ startup' = [startup EXCEPT !.handles = 2, !.pc = "configure"]
    /\ UNCHANGED othervars

\* config.configure_timer(..); new_initialized goes on to
\* maybe_load_auto_splitter and the hotkeys, LiveSplitGTK::new wraps the
\* Timer in its Rc and returns Self.
configure_startup ==
    /\ startup.pc = "configure"
    /\ startup' = IF startup.entry = "new_initialized"
                  THEN [startup EXCEPT !.pc = "hotkeys"]
                  ELSE [startup EXCEPT !.handles = 1, !.context = TRUE,
                                       !.pc = "done"]
    /\ UNCHANGED othervars

\* let Some(()) = config.create_hotkey_system(shared_timer.clone())
\*     else { panic!("Could not load HotkeySystem") };
create_hotkey_system ==
    /\ startup.pc = "hotkeys"
    /\ IF startup.hotkeys
       THEN /\ startup' = [startup EXCEPT !.handles = 3, !.pc = "object"]
            /\ UNCHANGED othervars
       ELSE Panics

\* glib::Object::new(), the three fields replaced, Arc::new(obj) returned.
object_new ==
    /\ startup.pc = "object"
    /\ startup' = [startup EXCEPT !.context = TRUE, !.pc = "done"]
    /\ UNCHANGED othervars

\* main: app.connect_activate(.. build_ui ..); app.run()
build_ui ==
    /\ startup.pc = "done"
    /\ startup.entry = "LiveSplitGTK::new"
    /\ ~startup.ui
    /\ startup' = [startup EXCEPT !.ui = TRUE]
    /\ UNCHANGED othervars

StartupInit ==
    /\ run = DefaultRun(1)
    /\ pending = None
    /\ lock = Unlocked
    /\ cfg_lock = NoThread
    /\ pc = [t \in Editors |-> "idle"]
    /\ cur = [t \in Editors |-> NoCall]
    /\ bg = "idle"
    /\ run_snapshot = None
    /\ timing_method = 0
    /\ entry_error = [c \in TimeColumns |-> FALSE]
    /\ started = 0
    /\ replaced = 0
    /\ emitted = 0
    /\ committed = run
    /\ method_signal = 0
    /\ model_segments = << >>
    /\ model_method = RealTime
    /\ store = << >>
    /\ last_call = "none"
    /\ startup \in {Startup(e, r, h, a, "begin", FALSE, 0, FALSE, FALSE) :
                      e \in Entries, r \in StartupRuns, h \in BOOLEAN, a \in BOOLEAN}

StartupNext ==
    \/ parse_run_or_default
    \/ timer_new
    \/ into_shared
    \/ configure_startup
    \/ create_hotkey_system
    \/ object_new
    \/ build_ui

StartupSpec == StartupInit /\ [][StartupNext]_vars

\* ========================= the setters called from several threads
\* Two threads, each with an EditorContext of its own bound to the one
\* shared Timer (EditorContext::new(timer)), call the four setters; the
\* background thread takes the lock as before.  Both contexts use the same
\* timing method, which stays as it was set.
Setters == {UI, "worker"}

SettersInit ==
    /\ run \in {DefaultRun(n) : n \in 1..MaxSegs}
    /\ pending = None
    /\ lock = Unlocked
    /\ cfg_lock = NoThread
    /\ pc = [t \in Setters |-> "idle"]
    /\ cur = [t \in Setters |-> NoCall]
    /\ bg = "idle"
    /\ run_snapshot = None
    /\ timing_method \in {set_method(m) : m \in TimingMethods}
    /\ entry_error = [c \in TimeColumns |-> FALSE]
    /\ started = 0
    /\ replaced = 0
    /\ emitted = 0
    /\ committed = run
    /\ method_signal = 0
    /\ startup = Constructed(run)
    /\ model_segments = << >>
    /\ model_method = RealTime
    /\ store = << >>
    /\ last_call = "none"

SettersNext ==
    \/ \E t \in Setters, i \in IndexInputs, n \in NameInputs :
            set_segment_name(t, i, n)
    \/ \E t \in Setters, i \in IndexInputs, ms \in MsInputs :
            set_split_time_ms(t, i, ms)
    \/ \E t \in Setters, i \in IndexInputs, ms \in MsInputs :
            set_segment_time_ms(t, i, ms)
    \/ \E t \in Setters, i \in IndexInputs, ms \in MsInputs :
            set_best_time_ms(t, i, ms)
    \/ \E t \in Setters : release_unedited(t)
    \/ \E t \in Setters : timer_set_run(t)
    \/ \E t \in Setters : timer_set_run_returns(t)
    \/ \E t \in Setters : emit_run_changed(t)
    \/ bg_read
    \/ bg_write
    \/ bg_unlock

SettersSpec == SettersInit /\ [][SettersNext]_vars

\* --------------------- the rows of SegmentsEditor::create_data_model
\* The values create_data_model puts in the row of segments[index]: m is
\* self.timing_method, current is timer.current_timing_method().  Name, split
\* time and segment time are computed as in compute_row_values; best is
\*     segment.comparison_timing_method("Best Segments", current)
\*         .map_or(String::new(), |t| time_parser.format_time_span(&t))
data_model_row(m, current, segments, index) ==
    [name |-> segments[index + 1].name,
     split_time |-> split_time(segments[index + 1], m),
     segment_time |-> segment_time(segments, index, m),
     best |-> LET t == comparison_timing_method(segments[index + 1],
                                                "Best Segments", current)
              IN  IF t = None THEN EmptyString ELSE format_time_span(t[1])]

\* =============================================================== claims
TimeKinds == TimeColumns \cup (EcKinds \ {"set_segment_name"})
EditKinds == EcKinds \cup TableKinds

\* The step is thread t entering one of the EditorContext setters.
SetterCalled(t) ==
    /\ pc[t] = "idle"
    /\ started' = started + 1
    /\ cur'[t].kind \in EcKinds

\* C1: an EditorContext setter called while another thread holds the timer
\* lock returns in that same step (it does not wait), leaves the stored Run,
\* the lock and both counters as they were, emits nothing, and leaves nothing
\* of the call behind that could apply the edit later.
C1_ContendedSetterDropsEdit ==
    [][\A t \in Editors :
          (SetterCalled(t) /\ HeldByOther(t)) =>
              /\ pc'[t] = "idle"
              /\ cur'[t].outcome \in {"contended", "rejected"}
              /\ cur'[t].index = 0 /\ cur'[t].name = ""
              /\ run' = run
              /\ pending' = pending
              /\ lock' = lock
              /\ replaced' = replaced
              /\ emitted' = emitted]_vars

C1_Witness ==
    \E t \in Editors :
        /\ pc[t] = "idle"
        /\ cur[t].kind \in EcKinds
        /\ cur[t].outcome = "contended"
        /\ bg # "idle"

\* C2: no UI-initiated writer of the Run ever waits for the timer lock while
\* another thread holds it.
C2_NoUiWriterWaits ==
    \A t \in Editors : pc[t] = "write_wait" => ~HeldByOther(t)

\* C3: whenever no call is in progress, run-changed has been emitted as many
\* times as the stored Run has been replaced.
C3_OneEmissionPerReplacement ==
    (\A t \in Editors : pc[t] = "idle") => emitted = replaced

\* C4: when a setter or TuxSplitContext::set_run is about to emit
\* run-changed, the thread holds neither the timer lock nor the config lock,
\* no replacement is in flight, and the Run of this call is the stored Run.
C4_NotifyAfterReleaseAndStore ==
    \A t \in Editors :
        (pc[t] = "emit" /\ cur[t].kind \in EcKinds \cup {"set_run"}) =>
            /\ lock.writer # t
            /\ t \notin lock.readers
            /\ cfg_lock # t
            /\ pending = None
            /\ cur[t].outcome = "committed"
            /\ run = committed

\* C5: run-changed is emitted only by a call whose Timer::set_run replaced
\* the stored Run.
C5_EmitOnlyAfterReplacement ==
    [][emitted' > emitted =>
          \E t \in Editors : pc[t] = "emit" /\ cur[t].outcome = "committed"]_vars

\* C6: an edit that holds the lock with an index not below the segment count
\* ends in its next step without touching the stored Run, without emitting
\* and without a panic, and the write lock is free again.
C6_OutOfRangeIsNoOp ==
    [][\A t \in Editors :
          (/\ pc[t] = "locked"
           /\ cur[t].kind \in EditKinds
           /\ cur[t].index >= Len(run)
           /\ pc'[t] # "locked") =>
              /\ pc'[t] = "idle"
              /\ cur'[t].outcome \in {"out_of_range", "no_item"}
              /\ run' = run
              /\ pending' = None
              /\ replaced' = replaced
              /\ emitted' = emitted
              /\ lock' = Unlocked]_vars

\* A cell handler found its row index stale: the row exists in the table,
\* the Run has fewer segments by now.
C6_Witness ==
    \E t \in Editors :
        /\ pc[t] = "idle"
        /\ cur[t].kind \in TableKinds
        /\ cur[t].outcome = "out_of_range"

\* C7: a time edit with a negative value never gets as far as asking for the
\* lock; only negative values are refused (zero is accepted); and the step in
\* which a value is refused, or a text found malformed, changes neither the
\* stored Run nor the lock nor the counters.
NegativeNeverReachesLock ==
    \A t \in Editors :
        (pc[t] \in {"write_wait", "locked", "replacing"} /\ cur[t].kind \in TimeKinds)
            => cur[t].ms >= 0

OnlyNegativeRefused ==
    \A t \in Editors : cur[t].outcome = "rejected" => cur[t].ms < 0

C7_InvalidTimeNeverMutates ==
    /\ [](NegativeNeverReachesLock /\ OnlyNegativeRefused)
    /\ [][\A t \in Editors :
            (started' = started + 1 /\ cur'[t].outcome \in {"rejected", "malformed"}) =>
                /\ pc'[t] = "idle"
                /\ run' = run
                /\ pending' = pending
                /\ lock' = lock
                /\ replaced' = replaced
                /\ emitted' = emitted]_vars

\* A zero was stored by a cell edit, and a later negative cell value refused.
C7_Witness ==
    \E t \in Editors :
        /\ cur[t].outcome = "rejected"
        /\ cur[t].kind \in TimeColumns
        /\ \E k \in 1..Len(run) : run[k].pb[TableMethod] = Some(0)

\* C8: when the Timer::set_run of cancel_changes returns, the stored Run is
\* the snapshot taken by SegmentsEditor::new, whatever it was before (so a
\* second cancel gives the same Run), and the snapshot is kept.
C8_CancelRestoresSnapshot ==
    [][\A t \in Editors :
          (pc[t] = "replacing" /\ cur[t].kind = "cancel_changes" /\ pc'[t] # "replacing") =>
              /\ run' = run_snapshot[1]
              /\ run_snapshot' = run_snapshot
              /\ cur'[t].outcome = "committed"
              /\ pc'[t] = "idle"]_vars

\* A cancel that undid edits: the stored Run was not the snapshot before.
C8_Witness ==
    \E t \in Editors :
        /\ pc[t] = "idle"
        /\ cur[t].kind = "cancel_changes"
        /\ cur[t].changed
        /\ run = run_snapshot[1]

\* C9: while any thread holds the timer lock for reading, no replacement of
\* the stored Run is in flight and no thread holds the lock for writing.
C9_ReadersSeeWholeRun ==
    \A th \in Threads :
        th \in lock.readers => (pending = None /\ lock.writer = NoThread)

\* A committing writer waits for a reader, after a commit.
C9_Witness ==
    /\ bg = "reading"
    /\ replaced > 0
    /\ \E t \in Editors : pc[t] = "write_wait"

C11_TableEditsStayStaged ==
    [][\A t \in Editors :
          (pc[t] = "replacing" /\ cur[t].kind \in TableKinds) => run' = run]_vars

\* The store holds the rows of a build or a refresh from model_segments.
StoreFilled == last_call # "none"

\* C12: in every row i that build_from_timer or refresh_from_timer made
\* from the segments, the split time is the formatting of segment i's own
\* "Personal Best" time under the method, and it is the empty string exactly
\* when that time is absent; no other segment enters.
C12_SplitTimeIsOwnTime ==
    StoreFilled =>
        \A i \in 1..Len(store) :
            LET t == model_segments[i].pb[model_method] IN
                /\ (store[i].split_time = EmptyString) <=> (t = None)
                /\ t # None => store[i].split_time = format_time_span(t[1])

\* Rows under GameTime: one with a split time, one without.
C12_Witness ==
    /\ StoreFilled
    /\ model_method = GameTime
    /\ \E i, j \in 1..Len(store) :
        /\ store[i].split_time = format_time_span(MaxMs)
        /\ store[j].split_time = EmptyString
        /\ model_segments[j].pb[RealTime] # None

\* The earlier segments (1-based, before position i) whose comparison time
\* under the method is present and not zero.
EarlierRecorded(segments, comparison, m, i) ==
    {k \in 1..(i - 1) :
        /\ comparison_timing_method(segments[k], comparison, m) # None
        /\ comparison_timing_method(segments[k], comparison, m)[1] # 0}

\* The time of the nearest of them, zero when there is none.
PrevReference(segments, comparison, m, i) ==
    LET S == EarlierRecorded(segments, comparison, m, i) IN
        IF S = {} THEN 0
        ELSE LET k == CHOOSE x \in S : \A y \in S : y <= x
             IN  comparison_timing_method(segments[k], comparison, m)[1]

FlooredAtZero(d) == IF d < 0 THEN 0 ELSE d

\* C13: in every row whose split time is present, the segment time is the
\* formatting of split_time - prev_reference floored at zero: never of a
\* negative duration, and of zero when the split is below the reference.
C13_SegmentDeltaFloored ==
    StoreFilled =>
        \A i \in 1..Len(store) :
            LET t == model_segments[i].pb[model_method] IN
                t # None =>
                    store[i].segment_time =
                        format_duration(FlooredAtZero(
                            t[1] - PrevReference(model_segments, "Personal Best",
                                                 model_method, i)))

C15_BestDeltaFromBestSegmentTime ==
    StoreFilled =>
        \A i \in 1..Len(store) :
            store[i].best =
                format_duration(FlooredAtZero(
                    unwrap_or_default(model_segments[i].best[model_method])
                    - PrevReference(model_segments, "Best Segments", model_method, i)))

\* The rows a build from the same segments and method gives, their objects
\* left out.
Shown(rows) == [i \in 1..Len(rows) |-> [rows[i] EXCEPT !.obj = 0]]
RowObjects(rows) == [i \in 1..Len(rows) |-> rows[i].obj]

\* C16: after refresh_from_timer the store holds what build_from_timer would
\* give for the same segments and method: as many rows, each with the same
\* index, name, split time, segment time and best.  When the store held as
\* many rows as there are segments the very same row objects are still in
\* it, in the same places; otherwise all its rows are new ones.
C16_RefreshEqualsBuild ==
    [][last_call' = "refresh_from_timer" =>
          /\ Shown(store') =
                Shown(BuiltRows(model_segments, model_method,
                                [i \in 1..Len(model_segments) |-> 0]))
          /\ IF Len(store) = Len(model_segments)
             THEN RowObjects(store') = RowObjects(store)
             ELSE Objects(store') \cap Objects(store) = {}]_vars

\* The rows of the earlier Run were kept and now show a split time.
C16_Witness ==
    /\ last_call = "refresh_from_timer"
    /\ Len(store) = MaxRows
    /\ RowObjects(store) = [i \in 1..MaxRows |-> i]
    /\ store[1].split_time # EmptyString
    /\ store[1].name \in NameInputs

\* The step in which the Timer::set_run of a call of the given kind returns.
SetRunReturned(t, kind) ==
    /\ pc[t] = "replacing"
    /\ cur[t].kind = kind
    /\ pc'[t] # "replacing"

OtherMethod(m) == IF m = RealTime THEN GameTime ELSE RealTime

KeepsOtherFields(kind, a, b) ==
    IF kind \in {"set_segment_name", "name_column"}
    THEN a.pb = b.pb /\ a.best = b.best
    ELSE IF kind \in {"set_best_time_ms", "best_segment_column"}
    THEN a.name = b.name /\ a.pb = b.pb
    ELSE a.name = b.name /\ a.best = b.best

\* C18: no step of an EditorContext setter or of a table cell handler,
\* whether the edit is stored or dropped, changes the number of segments of
\* the stored Run or moves one: the segment at each position is the one that
\* was there, but for the fields the edit is about.
C18_EditsKeepSegmentSequence ==
    [][\A t \in Editors :
          cur'[t].kind \in EditKinds =>
              /\ Len(run') = Len(run)
              /\ \A k \in 1..Len(run) : KeepsOtherFields(cur'[t].kind, run[k], run'[k])]_vars

\* Two edits were stored, the second a segment time, on a Run of MaxSegs
\* segments, and an edit before them was dropped or stored.
C18_Witness ==
    \E t \in Editors :
        /\ cur[t].kind \in {"set_segment_time_ms", "segment_time_column"}
        /\ cur[t].outcome = "committed"
        /\ replaced >= 2
        /\ started = MaxOps
        /\ Len(run) = MaxSegs
        /\ \E k \in 1..Len(run) : run[k].name \in NameInputs

C20_MethodSignalOnChangeOnly ==
    [][\A t \in Editors :
          (/\ pc[t] = "idle"
           /\ started' = started + 1
           /\ cur'[t].kind = "set_timing_method") =>
              /\ method(timing_method') = cur'[t].name
              /\ method_signal' =
                    IF cur'[t].name # method(timing_method) THEN 1 ELSE 0]_vars

\* GameTime was set a second time, silently.
C20_Witness ==
    \E t \in Editors :
        /\ cur[t].kind = "set_timing_method"
        /\ cur[t].name = GameTime
        /\ method_signal = 0
        /\ started >= 2

\* C21: whichever comparison is the active one, the split time of every row
\* is the formatting of the segment's time of that comparison under the
\* method (empty when absent), and its segment time is measured from the
\* times of that comparison.
C21_RowsFollowActiveComparison ==
    StoreFilled =>
        \A active \in ComparisonNames :
            \A i \in 1..Len(store) :
                LET t == comparison_timing_method(model_segments[i], active, model_method)
                    ref == PrevReference(model_segments, active, model_method, i)
                IN  /\ (store[i].split_time = EmptyString) <=> (t = None)
                    /\ t # None => store[i].split_time = format_time_span(t[1])
                    /\ (t # None /\ t[1] >= ref) =>
                            store[i].segment_time = format_duration(t[1] - ref)

\* C22: when the startup Run has no segment, the constructor never gets past
\* Timer::new: it panics there, and no Timer, no handle to one, no context
\* and no UI exist at any time.  When the hotkey system cannot be created,
\* new_initialized returns no context.  After a panic nothing is left and
\* nothing follows.
C22_ConstructionFailureIsFatal ==
    /\ [](/\ Len(startup.run) = 0 =>
                /\ startup.pc \in {"begin", "timer_new", "panicked"}
                /\ ~startup.timer /\ startup.handles = 0
                /\ ~startup.context /\ ~startup.ui
          /\ (startup.entry = "new_initialized" /\ ~startup.hotkeys) =>
                ~startup.context /\ ~startup.ui
          /\ startup.pc = "panicked" =>
                /\ ~startup.timer /\ startup.handles = 0
                /\ ~startup.context /\ ~startup.ui)
    /\ [][/\ (startup.pc = "timer_new" /\ Len(startup.run) = 0)
                => startup'.pc = "panicked"
          /\ (startup.pc = "hotkeys" /\ ~startup.hotkeys)
                => startup'.pc = "panicked"
          /\ startup.pc = "panicked" => startup' = startup]_vars

\* new_initialized panicked on a Run without segments.
C22_Witness ==
    /\ startup.pc = "panicked"
    /\ startup.entry = "new_initialized"
    /\ Len(startup.run) = 0
    /\ startup.hotkeys

\* C23: the name, split time, segment time and best of every row that
\* compute_row_values gives are those create_data_model puts in the row of
\* the same segment, for the same segments and the same timing method.
C23_ModelMirrorsTable ==
    StoreFilled =>
        \A i \in 1..Len(store) :
            LET row == data_model_row(model_method, model_method, model_segments, i - 1)
            IN  /\ store[i].name = row.name
                /\ store[i].split_time = row.split_time
                /\ store[i].segment_time = row.segment_time
                /\ store[i].best = row.best

\* C24: after build_from_timer or refresh_from_timer, whatever the store
\* held before and however many rows it had, the store has one row per
\* segment of the Run passed in, and the row at position k has index k and
\* the name of segment k.
C24_OneRowPerSegment ==
    StoreFilled =>
        /\ Len(store) = Len(model_segments)
        /\ \A k \in 1..Len(store) :
            /\ store[k].index = k - 1
            /\ store[k].name = model_segments[k].name

\* A refresh found fewer rows than segments, from an earlier Run, and
\* rebuilt the store.
C24_Witness ==
    /\ last_call = "refresh_from_timer"
    /\ Len(store) = MaxRows
    /\ store[1].obj = MaxRows
    /\ store[MaxRows].index = MaxRows - 1

\* The segments with nothing left but their "Best Segments" times under m.
OnlyGold(segments, m) ==
    [k \in 1..Len(segments) |->
        Segment("", EmptyTime, EmptyTime,
                [x \in TimingMethods |->
                    IF x = m THEN segments[k].best_segments[m] ELSE None])]

\* The segments with their times under the other method removed.
OnlyMethod(segments, m) ==
    LET keep(t) == [x \in TimingMethods |-> IF x = m THEN t[m] ELSE None]
    IN  [k \in 1..Len(segments) |->
            Segment(segments[k].name, keep(segments[k].pb), keep(segments[k].best),
                    keep(segments[k].best_segments))]

\* C25: the best value of every row is what the "Best Segments" times under
\* the active method alone give, whatever the names and the "Personal Best"
\* times; and the whole row is what the times under the active method alone
\* give, whatever the times under the other method.
C25_BestIndependentOfSplits ==
    StoreFilled =>
        \A i \in 1..Len(store) :
            /\ store[i].best =
                  compute_row_values(model_method,
                                     OnlyGold(model_segments, model_method), i - 1).best
            /\ [store[i] EXCEPT !.obj = 0] =
                  SegmentRow(0, i - 1,
                      compute_row_values(model_method,
                                         OnlyMethod(model_segments, model_method), i - 1))

\* A row whose split is measured against one segment and whose best against
\* another.
C25_Witness ==
    /\ StoreFilled
    /\ \E i \in 1..Len(store) :
        /\ store[i].split_time # EmptyString
        /\ store[i].best # format_duration(0)
        /\ last_gold(model_segments, i - 1, model_method) # None
        /\ last_non_skipped(model_segments, i - 1, model_method)
              # last_gold(model_segments, i - 1, model_method)

\* The duration a formatted value shows, zero for the empty string.
DurationShown(f) ==
    IF f = EmptyString THEN 0
    ELSE (IF f[1] = "-" THEN 0 - 1 ELSE 1) * (f[2] * 1000 + f[3])

RECURSIVE SumOfSegmentTimes(_, _)
SumOfSegmentTimes(rows, i) ==
    IF i = 0 THEN 0
    ELSE SumOfSegmentTimes(rows, i - 1) + DurationShown(rows[i].segment_time)

\* The present, non-zero split times under m do not decrease along the Run.
SplitsNonDecreasing(segments, m) ==
    \A j, k \in 1..Len(segments) :
        (/\ j < k
         /\ unwrap_or_default(segments[j].pb[m]) # 0
         /\ unwrap_or_default(segments[k].pb[m]) # 0)
            => segments[j].pb[m][1] <= segments[k].pb[m][1]

\* C26: when the present, non-zero split times do not decrease, the segment
\* times of the rows up to and including row i add up to the split time of
\* row i, for every row i whose split time is present and not zero.
C26_SegmentTimesTelescope ==
    (StoreFilled /\ SplitsNonDecreasing(model_segments, model_method)) =>
        \A i \in 1..Len(store) :
            unwrap_or_default(model_segments[i].pb[model_method]) # 0 =>
                SumOfSegmentTimes(store, i) = model_segments[i].pb[model_method][1]

\* ------------------------------------------------------------------ C27
\* Whether thread t is between try_write and the return of Timer::set_run:
\* it holds a copy of the Run, or has handed the edited copy to set_run.
HoldsCopy(t) == pc[t] \in {"locked", "replacing"}

\* Both threads have committed an edit, to different fields, and the Run
\* carries both.
BothCommitted ==
    /\ \A t \in DOMAIN pc : cur[t].outcome = "committed" /\ cur[t].changed
    /\ \E i \in 1..Len(run) :
        /\ run[i].name = "Renamed"
        /\ \E m \in TimingMethods : run[i].pb[m] # None \/ run[i].best[m] # None

\* C27: no update is lost between setter calls of several threads.  From the
\* moment a setter has the lock until its Timer::set_run returns, no other
\* thread changes the stored Run, and what it stores is its edit applied to
\* the Run as it is at that moment: every change committed before is kept,
\* except in the field of the segment that this call writes.
C27_NoLostUpdate ==
    [][\A t \in DOMAIN pc :
          /\ (HoldsCopy(t) /\ pc'[t] = pc[t]) => run' = run
          /\ (pc[t] = "locked" /\ pc'[t] = "replacing") =>
                 pending' = Some(EditedRun(cur[t], run))
          /\ (pc[t] = "replacing" /\ pc'[t] # "replacing") =>
                 run' = EditedRun(cur[t], run)]_vars

C27_Witness == Setters = DOMAIN pc /\ BothCommitted

\* ------------------------------------------------------------------ C28
\* The calls that assert that Timer::set_run returned Ok.
AssertingKinds == EcKinds \cup TableKinds

\* Thread t is at a RunEditor::new(..).ok().unwrap() that panics.
UnwrapFails(t) ==
    /\ pc[t] = "locked"
    /\ cur[t].kind \in RunEditorKinds
    /\ RunEditorNew(ReadRun) = None

\* Thread t is at an assert!(timer.set_run(..).is_ok()) that fails, or has
\* panicked in one.
AssertFails(t) ==
    \/ pc[t] = "panicked"
    \/ /\ pc[t] = "replacing"
       /\ cur[t].kind \in AssertingKinds
       /\ ~TimerAccepts(pending[1])

ValidSetterLocked(t) ==
    /\ pc[t] = "locked"
    /\ cur[t].kind \in EcKinds
    /\ InRange(run, cur[t].index)

\* Thread t holds the timer's lock, for writing or for reading.
Holds(t) == lock.writer = t \/ t \in lock.readers

\* The setter of thread t has returned after storing its Run.
SetterCommitted(t) ==
    /\ pc[t] = "idle"
    /\ cur[t].kind \in EcKinds
    /\ cur[t].outcome = "committed"

\* The steps of a setter from the lock to its return: the edited copy goes
\* to Timer::set_run, the Run is replaced by it and the guard dropped, and
\* run-changed is emitted once, by the last step, and by no other step of
\* the call.
SetterSteps(t) ==
    /\ (ValidSetterLocked(t) /\ pc'[t] # pc[t]) =>
            /\ pc'[t] = "replacing"
            /\ pending' = Some(EditedRun(cur[t], run))
            /\ emitted' = emitted
    /\ (pc[t] = "replacing" /\ cur[t].kind \in EcKinds /\ pc'[t] # pc[t]) =>
            /\ pc'[t] = "emit"
            /\ run' = pending[1]
            /\ ~Holds(t)'
            /\ emitted' = emitted
    /\ (pc[t] = "emit" /\ cur[t].kind \in EcKinds /\ pc'[t] # pc[t]) =>
            /\ SetterCommitted(t)'
            /\ emitted' = emitted + 1
            /\ run' = run

\* A setter called with ms >= 0 while no thread holds the lock gets it.
UncontendedSetterLocks(t) ==
    (SetterCalled(t) /\ WriteAvailable
        /\ cur'[t].outcome # "rejected") => (pc'[t] = "locked" /\ lock'.writer = t)

\* C29: a setter called while no thread holds the lock, with the index in
\* range and ms >= 0, gets the lock, replaces the Run by the edited one,
\* emits run-changed once and returns; and a thread that is in no call holds
\* no lock on the timer, so that its next setter call finds the lock free
\* unless another thread took it.
C29_UncontendedEditCommits ==
    /\ [](\A t \in DOMAIN pc : pc[t] = "idle" => ~Holds(t))
    /\ [](\A t \in DOMAIN pc :
            (pc[t] = "idle" /\ ~HeldByOther(t)) => TryWriteSucceeds)
    /\ [][\A t \in DOMAIN pc : UncontendedSetterLocks(t) /\ SetterSteps(t)]_vars
    /\ \A t \in Editors : ValidSetterLocked(t) ~> SetterCommitted(t)

\* A setter has committed, and the same thread's next setter call has the
\* lock again.
C29_Witness ==
    \E t \in DOMAIN pc :
        /\ ValidSetterLocked(t)
        /\ run_snapshot = None
        /\ run # DefaultRun(Len(run))
        /\ emitted >= 1

\* ------------------------------------------------------------------ C30
\* C30: the segment time of row i is the empty string exactly when segment
\* i has no "Personal Best" time under the method, as is its split time; the
\* best value is never the empty string, and when segment i has no "Best
\* Segments" time under the method it is the formatting of a zero duration.
C30_EmptyOnlyWithoutPersonalBest ==
    StoreFilled =>
        \A i \in 1..Len(store) :
            LET pb == comparison_timing_method(
                          model_segments[i], "Personal Best", model_method)
                gold == comparison_timing_method(
                            model_segments[i], "Best Segments", model_method)
            IN  /\ store[i].segment_time = EmptyString <=> pb = None
                /\ store[i].split_time = EmptyString <=> pb = None
                /\ store[i].best # EmptyString
                /\ gold = None => store[i].best = format_duration(0)

\* ------------------------------------------------------------------ C31
\* A change event of a time column's entry is handled in this step by t.
TimeCellChanged(t) ==
    /\ pc[t] = "idle"
    /\ started' = started + 1
    /\ cur'[t].kind \in TimeColumns

\* The input of the call t made last was invalid: it failed to parse, or
\* parsed to a negative duration.
FlaggedInput(c) == c.outcome \in {"rejected", "malformed"}

\* C31: after each change event of a time column's entry the entry has the
\* "error" class exactly when the text of that event failed to parse or
\* parsed to a negative duration, whatever the flag was before; a flagged
\* input returns without asking for the write lock, and a call that waits
\* for or holds the write lock has an entry without the flag.
C31_ErrorFlagIsLatestInput ==
    /\ [][\A t \in Editors :
            TimeCellChanged(t) =>
                /\ entry_error'[cur'[t].kind] <=> FlaggedInput(cur'[t])
                /\ \A c \in TimeColumns \ {cur'[t].kind} :
                       entry_error'[c] = entry_error[c]
                /\ FlaggedInput(cur'[t]) => (pc'[t] = "idle" /\ lock' = lock)
                /\ ~FlaggedInput(cur'[t]) =>
                       (pc'[t] = "write_wait" /\ cur'[t].ms >= 0)]_vars
    /\ [](\A t \in Editors :
            (pc[t] \in {"write_wait", "locked", "replacing"}
                /\ cur[t].kind \in TimeColumns) => ~entry_error[cur[t].kind])

\* After an edit was stored, an input of a time column that does not parse
\* has been flagged and the handler has returned.
C31_Witness ==
    \E t \in Editors :
        /\ cur[t].outcome = "malformed"
        /\ entry_error[cur[t].kind]
        /\ pc[t] = "idle"
        /\ \E k \in 1..Len(run), m \in TimingMethods :
               run[k].pb[m] # None \/ run[k].best[m] # None

\* ------------------------------------------------------------------ C32
\* Values of the Cell<i32> around the two codes that are stored.
CodeInputs == -1..2

\* C32: the stored timing-method code is 0 or 1 in every state; method()
\* gives GameTime exactly for the code 1 and RealTime for any other code,
\* the stored one included; method() after set_method(m) gives m for both
\* methods, and so does timing_method() once set_timing_method(m) returned.
C32_MethodCodeRoundTrip ==
    /\ [](timing_method \in {0, 1})
    /\ [](method(timing_method) = GameTime <=> timing_method = 1)
    /\ [](\A code \in CodeInputs :
            /\ method(code) = GameTime <=> code = 1
            /\ method(code) = RealTime <=> code # 1)
    /\ [](\A m \in TimingMethods :
            set_method(m) \in {0, 1} /\ method(set_method(m)) = m)
    /\ [][\A t \in Editors :
            (pc[t] = "idle" /\ started' = started + 1
                /\ cur'[t].kind = "set_timing_method") =>
                    /\ timing_method' = set_method(cur'[t].name)
                    /\ method(timing_method') = cur'[t].name]_vars

\* RealTime was set after GameTime had been: the code went from 1 back to 0.
C32_Witness ==
    \E t \in Editors :
        /\ cur[t].kind = "set_timing_method"
        /\ cur[t].name = RealTime
        /\ timing_method = 0
        /\ method_signal = 1

====
